---- MODULE Spec2Model ----
(***************************************************************************)
(* Model of pytorch_toolbox/training/learner.py: the epoch driver `fit`,   *)
(* `validate`, `loss_batch`, `determine_phase`, the Recorder callback and   *)
(* the methods of the Learner.                                              *)
(*                                                                         *)
(* Encoding of Python values:                                              *)
(*   - None for a list-valued or pair-valued name is the empty tuple       *)
(*     (last_metrics, val_loss); a non-None val_loss is the exact fraction *)
(*     <<numerator, denominator>>, losses being integers in tenths;        *)
(*   - `exception = False` is the string "False"; a raised exception is    *)
(*     identified by the name of the step that raised it;                  *)
(*   - a defaultdict is a function whose DOMAIN is the set of keys that    *)
(*     have been created;                                                  *)
(*   - values computed by external collaborators (per-sample losses,       *)
(*     metric values, lr, momentum) are tokens naming what was computed;   *)
(*   - what loss_batch returns without a loss function, the pair of the    *)
(*     model output and the target, is the negated batch id.               *)
(* BaseRecorder.val_losses, nb_batches and pbar are written but read only  *)
(* by plotting/printing code and are not part of the state.                *)
(*                                                                         *)
(* fit is modelled from the point where it holds its handler.  The         *)
(* construction on line 134 is not part of the model: as written it looks   *)
(* CallbackHandler up on the name `callbacks`, which inside fit is the      *)
(* parameter of that name and not the module.                               *)
(***************************************************************************)
EXTENDS Integers, Sequences, FiniteSets, TLC

MaxEpochs == 2
MaxTrain == 2
MaxValid == 2
MaxMetrics == 1
MaxFeed == 2
MaxBatches == 7
NCallbacks == 2
MaxGroups == 2
MaxCalls == 2

BatchSizes == {4, 6}
Losses == {10, 20}
MetricPool == <<"acc", "f1", "auc">>
LossFuncs == {<<>>, <<"BCE">>, <<"BCE", "Focal">>, <<"Focal", "Focal">>}
FeedSizes == {1, 2}
FeedEpochs == {0, 1}

VARIABLES caller, epochs, data, metrics, loss_func, loss_given, n_batch, average,
          feed, fed, first_pass,
          pc, epoch, ti, vi, yb, exception, raised, training,
          val_losses, nums, val_loss, cb_handler, cb_returns, recorder, log,
          layer_groups, train_bn, requires_grad, opt, delegations, calls

vars == <<caller, epochs, data, metrics, loss_func, loss_given, n_batch, average,
          feed, fed, first_pass,
          pc, epoch, ti, vi, yb, exception, raised, training,
          val_losses, nums, val_loss, cb_handler, cb_returns, recorder, log,
          layer_groups, train_bn, requires_grad, opt, delegations, calls>>

config == <<caller, epochs, data, metrics, loss_func, loss_given, n_batch, average>>

learner == <<layer_groups, train_bn, requires_grad, opt, delegations, calls>>

driver == <<pc, epoch, ti, vi, yb, exception, raised, training,
            val_losses, nums, val_loss, cb_handler, cb_returns, recorder, log>>

replay == <<feed, fed, first_pass>>

----------------------------------------------------------------------------
(* Batches and targets *)

None == <<>>
NoException == "False"

TargetAbsent == [name |-> "img"]
TargetNull == [name |-> "img", label |-> "None"]
TargetLabel == [name |-> "img", label |-> "y"]
Targets == {TargetAbsent, TargetNull, TargetLabel}

Batch(i, s, t, l) == [id |-> i, size |-> s, target |-> t, loss |-> l]
NoBatch == Batch(0, 0, TargetAbsent, 0)

SeqsUpTo(S, n) == UNION {[1..k -> S] : k \in 0..n}

SizeOf(i) == IF i % 2 = 1 THEN 4 ELSE 6
LossOf(i) == IF i % 2 = 1 THEN 20 ELSE 10

Loader(k, t) == [i \in 1..k |-> Batch(i, SizeOf(i), t, LossOf(i))]

TrainLoaders == {Loader(k, TargetLabel) : k \in 0..MaxTrain}
ValidLoaders == {Loader(k, t) : k \in 0..MaxValid, t \in Targets}

dict_get(d, k) == IF k \in DOMAIN d THEN d[k] ELSE "None"

----------------------------------------------------------------------------
(* determine_phase *)

determine_phase_AlwaysVal(train, last_target) ==
    IF train THEN "TRAIN" ELSE "VAL"

determine_phase(train, last_target) ==
    IF train
    THEN "TRAIN"
    ELSE LET label == dict_get(last_target, "label")
         IN IF label # "None" THEN "VAL" ELSE "TEST"

----------------------------------------------------------------------------
(* Recorder / BaseRecorder *)

Recorder_init ==
    [names |-> <<>>, losses |-> <<>>, lrs |-> <<>>, moms |-> <<>>, metrics |-> <<>>,
     loss_history |-> <<>>, metric_history |-> <<>>, phase |-> "None", key |-> <<>>]

BaseRecorder_on_train_begin(r, metrics_names) ==
    [r EXCEPT !.names = <<"epoch", "train_loss", "valid_loss">> \o metrics_names,
              !.losses = <<>>, !.lrs = <<>>, !.moms = <<>>, !.metrics = <<>>]

BaseRecorder_on_batch_begin_Always(r, train) ==
    [r EXCEPT !.lrs = Append(@, "lr"), !.moms = Append(@, "mom")]

BaseRecorder_on_batch_begin(r, train) ==
    IF train
    THEN [r EXCEPT !.lrs = Append(@, "lr"), !.moms = Append(@, "mom")]
    ELSE r

BaseRecorder_on_backward_begin(r, smooth_loss) ==
    [r EXCEPT !.losses = Append(@, smooth_loss)]

BaseRecorder_on_epoch_end(r, last_metrics) ==
    IF last_metrics # None /\ Len(last_metrics) > 1
    THEN [r EXCEPT !.metrics = Append(@, Tail(last_metrics))]
    ELSE r

Recorder_on_batch_begin(r, train, ep, last_target) ==
    LET r1 == BaseRecorder_on_batch_begin(r, train)
        ph == determine_phase(train, last_target)
    IN [r1 EXCEPT !.phase = ph, !.key = <<ph, ep>>]

per_sample_loss(j, batch) == [i \in 1..batch.size |-> <<j, batch.id, i>>]

LastIndexOf(names, n) ==
    CHOOSE j \in 1..Len(names) : names[j] = n /\ \A k \in (j+1)..Len(names) : names[k] # n

create_loss_values_for_batch_for_every_samples(lf, batch) ==
    [n \in {lf[j] : j \in 1..Len(lf)} |-> per_sample_loss(LastIndexOf(lf, n), batch)]

Series(h, k, n) ==
    IF k \in DOMAIN h THEN (IF n \in DOMAIN h[k] THEN h[k][n] ELSE <<>>) ELSE <<>>

Extended(h, k, n, vals) ==
    [kk \in DOMAIN h \cup {k} |->
        IF kk = k
        THEN [nn \in (IF k \in DOMAIN h THEN DOMAIN h[k] ELSE {}) \cup {n} |->
                 IF nn = n THEN Series(h, k, n) \o vals ELSE h[k][nn]]
        ELSE h[kk]]

update_loss_history_Replace(lh, key, loss_for_current_batch) ==
    IF DOMAIN loss_for_current_batch = {}
    THEN lh
    ELSE [kk \in DOMAIN lh \cup {key} |->
            IF kk = key
            THEN [nn \in (IF key \in DOMAIN lh THEN DOMAIN lh[key] ELSE {}) \cup DOMAIN loss_for_current_batch |->
                     IF nn \in DOMAIN loss_for_current_batch
                     THEN loss_for_current_batch[nn]
                     ELSE lh[key][nn]]
            ELSE lh[kk]]

update_loss_history(lh, key, loss_for_current_batch) ==
    IF DOMAIN loss_for_current_batch = {}
    THEN lh
    ELSE [kk \in DOMAIN lh \cup {key} |->
            IF kk = key
            THEN [nn \in (IF key \in DOMAIN lh THEN DOMAIN lh[key] ELSE {}) \cup DOMAIN loss_for_current_batch |->
                     Series(lh, key, nn) \o
                     (IF nn \in DOMAIN loss_for_current_batch
                      THEN loss_for_current_batch[nn]
                      ELSE <<>>)]
            ELSE lh[kk]]

Recorder_on_batch_end(r, lf, batch) ==
    [r EXCEPT !.loss_history =
        update_loss_history(@, r.key, create_loss_values_for_batch_for_every_samples(lf, batch))]

Min(a, b) == IF a < b THEN a ELSE b

RECURSIVE AppendZipped(_, _, _, _, _)
AppendZipped(mh, key, names, vals, i) ==
    IF i > Min(Len(names), Len(vals))
    THEN mh
    ELSE AppendZipped(Extended(mh, key, names[i], <<vals[i]>>), key, names, vals, i + 1)

Recorder_on_epoch_end(r, last_metrics) ==
    LET r1 == BaseRecorder_on_epoch_end(r, last_metrics)
    IN IF r1.phase = "VAL"
       THEN IF r1.metrics = <<>>
            THEN [rec |-> r1, err |-> "IndexError"]
            ELSE [rec |-> [r1 EXCEPT !.metric_history =
                              AppendZipped(@, r1.key, SubSeq(r1.names, 4, Len(r1.names)),
                                           r1.metrics[1], 1)],
                  err |-> "None"]
       ELSE [rec |-> r1, err |-> "None"]

history(r) ==
    [k \in DOMAIN r.loss_history \cup DOMAIN r.metric_history |->
        IF k \in DOMAIN r.metric_history THEN r.metric_history[k] ELSE r.loss_history[k]]

----------------------------------------------------------------------------
(* CallbackHandler: dispatch to the Recorder first (its _order is -10),    *)
(* then to the NCallbacks other callbacks, whose results and failures are   *)
(* inputs.  Stop signals are aggregated by logical OR.  cb_returns holds    *)
(* what the callbacks returned to the dispatch of on_batch_end or           *)
(* on_epoch_end that has just been made, and None at any other time.         *)

Event(name, train, stop, arg, err) ==
    [ev |-> name, epoch |-> epoch, train |-> train, stop |-> stop, arg |-> arg, err |-> err]

Returns == [1..NCallbacks -> BOOLEAN]

AnyStop(rets) == \E i \in 1..NCallbacks : rets[i]

ErrOf(ok, site) == IF ok THEN "None" ELSE site

metrics_names == metrics

MetricValue(name, ep) == <<name, ep>>

LastMetrics(vl, ep) ==
    IF vl = None
    THEN None
    ELSE <<vl>> \o [i \in 1..Len(metrics) |-> MetricValue(metrics[i], ep)]

----------------------------------------------------------------------------
(* Exceptions.  Inside the try block of fit an exception is caught, kept   *)
(* in `exception` and re-raised once the finally block has run; anywhere    *)
(* else it reaches the caller at once.                                      *)

Caught_Dropped(e) ==
    /\ exception' = NoException
    /\ raised' = raised
    /\ pc' = "finally"

Caught_NoFinally(e) ==
    /\ exception' = e
    /\ raised' = e
    /\ pc' = "done"

Caught(e) ==
    /\ exception' = e
    /\ raised' = raised
    /\ pc' = "finally"

Propagate(e) ==
    /\ exception' = exception
    /\ raised' = e
    /\ pc' = "done"

Raise(e) == IF caller = "fit" THEN Caught(e) ELSE Propagate(e)

NoRaise == UNCHANGED <<exception, raised>>

----------------------------------------------------------------------------
(* fit *)

FitBegin ==
    /\ pc = "call"
    /\ caller = "fit"
    /\ \E ok \in BOOLEAN :
        /\ log' = Append(log, Event("on_train_begin", FALSE, FALSE, "-", ErrOf(ok, "on_train_begin")))
        /\ recorder' = BaseRecorder_on_train_begin(recorder, metrics_names)
        /\ cb_handler' = [epoch |-> 0]
        /\ IF ok
           THEN /\ pc' = "loop"
                /\ exception' = NoException
                /\ raised' = raised
           ELSE Propagate("on_train_begin")
    /\ cb_returns' = None
    /\ UNCHANGED <<config, learner, replay, epoch, ti, vi, yb, training, val_losses, nums, val_loss>>

EpochBegin_NoTrainMode ==
    /\ pc = "loop"
    /\ epoch < epochs
    /\ training' = training
    /\ \E ok \in BOOLEAN :
        /\ log' = Append(log, Event("on_epoch_begin", TRUE, FALSE, "-", ErrOf(ok, "on_epoch_begin")))
        /\ IF ok
           THEN /\ pc' = "train"
                /\ NoRaise
           ELSE Raise("on_epoch_begin")
    /\ ti' = 0
    /\ cb_returns' = None
    /\ UNCHANGED <<config, learner, replay, epoch, vi, yb, val_losses, nums, val_loss, cb_handler, recorder>>

EpochBegin ==
    /\ pc = "loop"
    /\ epoch < epochs
    /\ training' = TRUE
    /\ \E ok \in BOOLEAN :
        /\ log' = Append(log, Event("on_epoch_begin", TRUE, FALSE, "-", ErrOf(ok, "on_epoch_begin")))
        /\ IF ok
           THEN /\ pc' = "train"
                /\ NoRaise
           ELSE Raise("on_epoch_begin")
    /\ ti' = 0
    /\ cb_returns' = None
    /\ UNCHANGED <<config, learner, replay, epoch, vi, yb, val_losses, nums, val_loss, cb_handler, recorder>>

LoopExit_NoFinally ==
    /\ pc = "loop"
    /\ epoch = epochs
    /\ pc' = "done"
    /\ cb_returns' = None
    /\ UNCHANGED <<config, learner, replay, epoch, ti, vi, yb, exception, raised, training,
                   val_losses, nums, val_loss, cb_handler, recorder, log>>

LoopExit ==
    /\ pc = "loop"
    /\ epoch = epochs
    /\ pc' = "finally"
    /\ cb_returns' = None
    /\ UNCHANGED <<config, learner, replay, epoch, ti, vi, yb, exception, raised, training,
                   val_losses, nums, val_loss, cb_handler, recorder, log>>

TrainBatchBegin ==
    /\ pc = "train"
    /\ ti < Len(data.train_dl)
    /\ yb' = data.train_dl[ti + 1]
    /\ recorder' = Recorder_on_batch_begin(recorder, TRUE, cb_handler.epoch, yb'.target)
    /\ \E ok \in BOOLEAN :
        /\ log' = Append(log, Event("on_batch_begin", TRUE, FALSE, "-", ErrOf(ok, "on_batch_begin")))
        /\ IF ok
           THEN /\ pc' = "train_loss"
                /\ NoRaise
           ELSE Raise("on_batch_begin")
    /\ cb_returns' = None
    /\ UNCHANGED <<config, learner, replay, epoch, ti, vi, training, val_losses, nums, val_loss, cb_handler>>

TrainExhausted ==
    /\ pc = "train"
    /\ ti = Len(data.train_dl)
    /\ pc' = "after_train"
    /\ cb_returns' = None
    /\ UNCHANGED <<config, learner, replay, epoch, ti, vi, yb, exception, raised, training,
                   val_losses, nums, val_loss, cb_handler, recorder, log>>

(* loss_batch: the steps it takes with and without an optimizer; failAt is *)
(* the step that raises (0: none).                                          *)

TrainSteps ==
    <<"forward", "on_loss_begin", "loss_func", "on_backward_begin", "backward",
      "on_backward_end", "opt_step", "on_step_end", "zero_grad">>

ValidSteps == <<"forward", "on_loss_begin", "loss_func">>

NoLossSteps == <<"forward", "on_loss_begin">>

loss_batch_steps_NoGuard(has_opt) ==
    IF has_opt THEN TrainSteps ELSE ValidSteps

loss_batch_steps(has_opt) ==
    IF ~loss_given THEN NoLossSteps
    ELSE IF has_opt THEN TrainSteps
    ELSE ValidSteps

Position(steps, name) ==
    IF \E i \in DOMAIN steps : steps[i] = name
    THEN CHOOSE i \in DOMAIN steps : steps[i] = name
    ELSE 0

Reached(steps, name, failAt) ==
    /\ Position(steps, name) # 0
    /\ failAt = 0 \/ failAt >= Position(steps, name)

OutputOf(batch) == 0 - batch.id

loss_batch_result(batch) == IF loss_given THEN batch.loss ELSE OutputOf(batch)

StepEvents(steps, train, failAt) ==
    LET n == IF failAt = 0 THEN Len(steps) ELSE failAt
    IN [i \in 1..n |-> Event(steps[i], train, FALSE, "-", IF i = failAt THEN steps[i] ELSE "None")]

TrainLossBatch ==
    /\ pc = "train_loss"
    /\ \E failAt \in 0..Len(loss_batch_steps(TRUE)) :
        /\ log' = log \o StepEvents(loss_batch_steps(TRUE), TRUE, failAt)
        /\ recorder' = IF Reached(loss_batch_steps(TRUE), "on_backward_begin", failAt)
                       THEN BaseRecorder_on_backward_begin(recorder, "smooth_loss")
                       ELSE recorder
        /\ IF failAt = 0
           THEN /\ pc' = "train_end"
                /\ NoRaise
           ELSE Raise(loss_batch_steps(TRUE)[failAt])
    /\ cb_returns' = None
    /\ UNCHANGED <<config, learner, replay, epoch, ti, vi, yb, training, val_losses, nums, val_loss, cb_handler>>

BreakTrain_Return ==
    /\ pc' = "finally"
    /\ ti' = ti

BreakTrain ==
    /\ pc' = "after_train"
    /\ ti' = ti

TrainBatchEnd ==
    /\ pc = "train_end"
    /\ recorder' = Recorder_on_batch_end(recorder, loss_func, yb)
    /\ \E ok \in BOOLEAN, rets \in Returns :
        /\ ~ok => rets = [i \in 1..NCallbacks |-> FALSE]
        /\ cb_returns' = rets
        /\ log' = Append(log, Event("on_batch_end", TRUE, ok /\ AnyStop(rets), "-", ErrOf(ok, "on_batch_end")))
        /\ IF ~ok
           THEN /\ Raise("on_batch_end")
                /\ ti' = ti
           ELSE /\ NoRaise
                /\ IF AnyStop(rets)
                   THEN BreakTrain
                   ELSE /\ pc' = "train"
                        /\ ti' = ti + 1
    /\ UNCHANGED <<config, learner, replay, epoch, vi, yb, training, val_losses, nums, val_loss, cb_handler>>

----------------------------------------------------------------------------
(* validate, called from fit (average = True, n_batch = None) or directly. *)
(* val_losses and nums are its locals; the model keeps those of the last    *)
(* call until the epoch that made the call ends.                            *)

ValidateBegin ==
    /\ \/ pc = "after_train" /\ data.has_valid
       \/ pc = "call" /\ caller = "validate"
    /\ training' = FALSE
    /\ val_losses' = <<>>
    /\ nums' = <<>>
    /\ vi' = 0
    /\ pc' = "valid"
    /\ cb_returns' = None
    /\ UNCHANGED <<config, learner, replay, epoch, ti, yb, exception, raised, val_loss, cb_handler, recorder, log>>

NoValidation ==
    /\ pc = "after_train"
    /\ ~data.has_valid
    /\ val_loss' = None
    /\ pc' = "epoch_end"
    /\ cb_returns' = None
    /\ UNCHANGED <<config, learner, replay, epoch, ti, vi, yb, exception, raised, training,
                   val_losses, nums, cb_handler, recorder, log>>

ValBatchBegin ==
    /\ pc = "valid"
    /\ vi < Len(data.valid_dl)
    /\ yb' = data.valid_dl[vi + 1]
    /\ recorder' = Recorder_on_batch_begin(recorder, FALSE, cb_handler.epoch, yb'.target)
    /\ \E ok \in BOOLEAN :
        /\ log' = Append(log, Event("on_batch_begin", FALSE, FALSE, "-", ErrOf(ok, "on_batch_begin")))
        /\ IF ok
           THEN /\ pc' = "valid_loss"
                /\ NoRaise
           ELSE Raise("on_batch_begin")
    /\ cb_returns' = None
    /\ UNCHANGED <<config, learner, replay, epoch, ti, vi, training, val_losses, nums, val_loss, cb_handler>>

ValExhausted ==
    /\ pc = "valid"
    /\ vi = Len(data.valid_dl)
    /\ pc' = "valid_return"
    /\ cb_returns' = None
    /\ UNCHANGED <<config, learner, replay, epoch, ti, vi, yb, exception, raised, training,
                   val_losses, nums, val_loss, cb_handler, recorder, log>>

ValLossBatch ==
    /\ pc = "valid_loss"
    /\ \E failAt \in 0..Len(loss_batch_steps(FALSE)) :
        /\ log' = log \o StepEvents(loss_batch_steps(FALSE), FALSE, failAt)
        /\ IF failAt = 0
           THEN /\ val_losses' = Append(val_losses, loss_batch_result(yb))
                /\ nums' = Append(nums, yb.size)
                /\ pc' = "valid_end"
                /\ NoRaise
           ELSE /\ Raise(loss_batch_steps(FALSE)[failAt])
                /\ UNCHANGED <<val_losses, nums>>
    /\ cb_returns' = None
    /\ UNCHANGED <<config, learner, replay, epoch, ti, vi, yb, training, val_loss, cb_handler, recorder>>

validate_should_break_Always(stop) == TRUE

validate_should_break_IgnoreStop(stop) ==
    n_batch # 0 /\ Len(nums) >= n_batch

validate_should_break_OffByOne(stop) ==
    \/ stop
    \/ n_batch # 0 /\ Len(nums) > n_batch

validate_should_break(stop) ==
    \/ stop
    \/ n_batch # 0 /\ Len(nums) >= n_batch

ValBatchEnd ==
    /\ pc = "valid_end"
    /\ recorder' = Recorder_on_batch_end(recorder, loss_func, yb)
    /\ \E ok \in BOOLEAN, rets \in Returns :
        /\ ~ok => rets = [i \in 1..NCallbacks |-> FALSE]
        /\ cb_returns' = rets
        /\ log' = Append(log, Event("on_batch_end", FALSE, ok /\ AnyStop(rets), "-", ErrOf(ok, "on_batch_end")))
        /\ IF ~ok
           THEN /\ Raise("on_batch_end")
                /\ vi' = vi
           ELSE /\ NoRaise
                /\ IF validate_should_break(AnyStop(rets))
                   THEN /\ pc' = "valid_return"
                        /\ vi' = vi
                   ELSE /\ pc' = "valid"
                        /\ vi' = vi + 1
    /\ UNCHANGED <<config, learner, replay, epoch, ti, yb, training, val_losses, nums, val_loss, cb_handler>>

RECURSIVE SumProd(_, _)
SumProd(ls, ns) ==
    IF ls = <<>> THEN 0 ELSE Head(ls) * Head(ns) + SumProd(Tail(ls), Tail(ns))

RECURSIVE Sum(_)
Sum(ns) == IF ns = <<>> THEN 0 ELSE Head(ns) + Sum(Tail(ns))

Average_Plain(ls, ns) == <<Sum(ls), Len(ls)>>

Average(ls, ns) == <<SumProd(ls, ns), Sum(ns)>>

ValidateReturn ==
    /\ pc = "valid_return"
    /\ LET failed == average /\ (val_losses = <<>> \/ ~loss_given)
       IN /\ log' = Append(log, Event("aggregate", FALSE, FALSE, "-", ErrOf(~failed, "torch_stack")))
          /\ IF failed
             THEN /\ Raise("torch_stack")
                  /\ val_loss' = val_loss
             ELSE /\ val_loss' = IF average THEN Average(val_losses, nums) ELSE val_losses
                  /\ pc' = IF caller = "fit" THEN "epoch_end" ELSE "done"
                  /\ NoRaise
    /\ cb_returns' = None
    /\ UNCHANGED <<config, learner, replay, epoch, ti, vi, yb, training, val_losses, nums,
                   cb_handler, recorder>>

----------------------------------------------------------------------------
(* end of epoch and finalization *)

BreakEpochs_Continue ==
    /\ pc' = "loop"
    /\ epoch' = epoch + 1

BreakEpochs ==
    /\ pc' = "finally"
    /\ epoch' = epoch

EpochEnd ==
    /\ pc = "epoch_end"
    /\ LET res == Recorder_on_epoch_end(recorder, LastMetrics(val_loss, cb_handler.epoch))
       IN /\ recorder' = res.rec
          /\ cb_handler' = [cb_handler EXCEPT !.epoch = @ + 1]
          /\ \E ok \in BOOLEAN, rets \in Returns :
               /\ ~ok => rets = [i \in 1..NCallbacks |-> FALSE]
               /\ cb_returns' = rets
               /\ res.err # "None" => ~ok
               /\ LET err == IF res.err # "None" THEN res.err ELSE ErrOf(ok, "on_epoch_end")
                  IN /\ log' = Append(log, Event("on_epoch_end", FALSE, ok /\ AnyStop(rets), "-", err))
                     /\ IF ~ok
                        THEN /\ Raise(err)
                             /\ epoch' = epoch
                        ELSE /\ NoRaise
                             /\ IF AnyStop(rets)
                                THEN BreakEpochs
                                ELSE /\ pc' = "loop"
                                     /\ epoch' = epoch + 1
    /\ val_loss' = None
    /\ val_losses' = <<>>
    /\ nums' = <<>>
    /\ UNCHANGED <<config, learner, replay, ti, vi, yb, training>>

TrainEnd ==
    /\ pc = "finally"
    /\ \E ok \in BOOLEAN :
        /\ log' = Append(log, Event("on_train_end", FALSE, FALSE, exception, ErrOf(ok, "on_train_end")))
        /\ raised' = IF ok THEN (IF exception # NoException THEN exception ELSE "None")
                           ELSE "on_train_end"
    /\ pc' = "done"
    /\ cb_returns' = None
    /\ UNCHANGED <<config, learner, replay, epoch, ti, vi, yb, exception, training,
                   val_losses, nums, val_loss, cb_handler, recorder>>

----------------------------------------------------------------------------
(* A Recorder fed a sequence of batch events twice over *)

FeedEvents == [train : BOOLEAN, epoch : FeedEpochs, size : FeedSizes, target : Targets]

RecBatchBegin ==
    /\ pc = "rec_begin"
    /\ fed < 2 * Len(feed)
    /\ LET i == (fed % Len(feed)) + 1
           e == feed[i]
       IN /\ yb' = Batch(i, e.size, e.target, 0)
          /\ recorder' = Recorder_on_batch_begin(recorder, e.train, e.epoch, e.target)
    /\ pc' = "rec_end"
    /\ cb_returns' = None
    /\ UNCHANGED <<config, learner, feed, fed, first_pass, epoch, ti, vi, exception, raised, training,
                   val_losses, nums, val_loss, cb_handler, log>>

RecBatchEnd ==
    /\ pc = "rec_end"
    /\ recorder' = Recorder_on_batch_end(recorder, loss_func, yb)
    /\ fed' = fed + 1
    /\ first_pass' = IF fed' = Len(feed) THEN recorder'.loss_history ELSE first_pass
    /\ pc' = "rec_begin"
    /\ cb_returns' = None
    /\ UNCHANGED <<config, learner, feed, epoch, ti, vi, yb, exception, raised, training,
                   val_losses, nums, val_loss, cb_handler, log>>

----------------------------------------------------------------------------
(* Learner.  A layer is identified by <<group, position>> and is either a   *)
(* batch-norm layer or not; requires_grad maps each layer to the flag of    *)
(* its parameters.  Python indexes layer groups from 0.  A name looked up   *)
(* on the learner resolves when __init__ assigned it, create_opt assigned   *)
(* it, or the class defines it; the class has no base class, so super()     *)
(* resolves nothing beyond `object`.  Every method call is recorded in      *)
(* `calls` with the flags before and after it and the exception it raised.  *)
(* freeze_to has no definition in the class: what it would do to the flags  *)
(* is not modelled, a call of it raises AttributeError.                      *)

Layer(g, j, bn) == [id |-> <<g, j>>, bn |-> bn]

LayerGroups(n) == [g \in 1..n |-> <<Layer(g, 1, FALSE), Layer(g, 2, TRUE)>>]

LayerIds(lg) == {lg[g][j].id : g \in DOMAIN lg, j \in {1, 2}}

GroupIdxs == 0..(Len(layer_groups) - 1)

InstanceAttrs ==
    {"data", "model", "loss_func", "opt_func", "true_weight_decay", "batch_norm_weight_decay",
     "weight_decay", "train_bn", "model_dir", "metrics", "callbacks", "callback_fns",
     "layer_groups"}

Methods ==
    {"fit", "create_opt", "model_gradients", "predict_on_dl", "predict_on_test_dl", "freeze",
     "unfreeze", "freeze_layer_groups", "unfreeze_layer_groups", "load_from_path"}

BaseMethods == {}

Resolves(name) ==
    name \in InstanceAttrs \cup Methods \cup (IF opt # 0 THEN {"opt"} ELSE {})

RECURSIVE FirstUnresolved(_)
FirstUnresolved(names) ==
    IF names = <<>> THEN "None"
    ELSE IF ~Resolves(Head(names)) THEN Head(names)
    ELSE FirstUnresolved(Tail(names))

Completed(rg) == [err |-> "None", missing |-> "None", rg |-> rg]

Failed(e, name, rg) == [err |-> e, missing |-> name, rg |-> rg]

Learner_freeze_NoAssert(rg) ==
    IF Resolves("freeze_to")
    THEN Completed(rg)
    ELSE Failed("AttributeError", "freeze_to", rg)

Learner_freeze(rg) ==
    IF ~(Len(layer_groups) > 1)
    THEN Failed("AssertionError", "None", rg)
    ELSE IF Resolves("freeze_to")
         THEN Completed(rg)
         ELSE Failed("AttributeError", "freeze_to", rg)

Learner_unfreeze(rg) ==
    IF Resolves("freeze_to")
    THEN Completed(rg)
    ELSE Failed("AttributeError", "freeze_to", rg)

freeze_loop(rg, idxs) ==
    [id \in DOMAIN rg |->
        IF \E i \in idxs : \E j \in DOMAIN layer_groups[i + 1] :
               /\ layer_groups[i + 1][j].id = id
               /\ ~train_bn \/ ~layer_groups[i + 1][j].bn
        THEN FALSE
        ELSE rg[id]]

Learner_freeze_layer_groups(rg, layer_group_idxs) ==
    IF "unfreeze" \in BaseMethods
    THEN Completed(freeze_loop(rg, layer_group_idxs))
    ELSE Failed("AttributeError", "super().unfreeze", rg)

Learner_unfreeze_layer_groups(rg, layer_group_idxs) ==
    LET layer_group_idxs_to_freeze == GroupIdxs \ layer_group_idxs
    IN Learner_freeze_layer_groups(rg, layer_group_idxs_to_freeze)

Called(op, arg, res) ==
    /\ caller = "learner"
    /\ Len(calls) < MaxCalls
    /\ requires_grad' = res.rg
    /\ calls' = Append(calls, [op |-> op, arg |-> arg, err |-> res.err, missing |-> res.missing,
                               before |-> requires_grad, after |-> res.rg])
    /\ UNCHANGED <<config, replay, driver, layer_groups, train_bn>>

Freeze ==
    /\ Called("freeze", {}, Learner_freeze(requires_grad))
    /\ UNCHANGED <<opt, delegations>>

Unfreeze ==
    /\ Called("unfreeze", {}, Learner_unfreeze(requires_grad))
    /\ UNCHANGED <<opt, delegations>>

FreezeLayerGroups ==
    /\ \E S \in SUBSET GroupIdxs :
        Called("freeze_layer_groups", S, Learner_freeze_layer_groups(requires_grad, S))
    /\ UNCHANGED <<opt, delegations>>

UnfreezeLayerGroups ==
    /\ \E S \in SUBSET GroupIdxs :
        Called("unfreeze_layer_groups", S, Learner_unfreeze_layer_groups(requires_grad, S))
    /\ UNCHANGED <<opt, delegations>>

(* Learner.fit: the names it looks up on the learner, in the order of the   *)
(* statements that use them; the first one that does not resolve raises     *)
(* AttributeError and nothing after it runs.  A callback is a record of its  *)
(* class and of the optimizer it captured when it was instantiated.          *)

Callback(cls, o) == [cls |-> cls, opt |-> o]

self_callbacks == <<Callback("LearnerLevel", 0)>>

CallCallbacks == {<<>>, <<Callback("CallSupplied", 0)>>}

FitLookups(wd_given) ==
    <<"lr_range">> \o (IF wd_given THEN <<>> ELSE <<"wd">>) \o
    <<"create_opt", "opt_func", "layer_groups", "true_wd", "bn_wd", "callback_fns",
      "model", "loss_func", "data", "metrics", "callbacks">>

LearnerFit ==
    \E wd_given \in BOOLEAN, callbacks \in CallCallbacks :
        LET missing == FirstUnresolved(FitLookups(wd_given))
            arg == [wd_given |-> wd_given, callbacks |-> callbacks]
        IN IF missing # "None"
           THEN /\ Called("fit", arg, Failed("AttributeError", missing, requires_grad))
                /\ UNCHANGED <<opt, delegations>>
           ELSE /\ Called("fit", arg, Completed(requires_grad))
                /\ opt' = opt + 1
                /\ delegations' = Append(delegations,
                       [opt |-> opt',
                        callbacks |-> self_callbacks \o <<Callback("Recorder", opt')>> \o callbacks])

----------------------------------------------------------------------------
(* Specifications *)

DataBunches ==
    {[train_dl |-> t, valid_dl |-> <<>>, has_valid |-> FALSE] : t \in TrainLoaders}
    \cup {[train_dl |-> t, valid_dl |-> v, has_valid |-> TRUE] : t \in TrainLoaders, v \in ValidLoaders}

MetricLists == {SubSeq(MetricPool, 1, k) : k \in 0..MaxMetrics}

InitLocals ==
    /\ epoch = 0
    /\ ti = 0
    /\ vi = 0
    /\ yb = NoBatch
    /\ exception = NoException
    /\ raised = "None"
    /\ val_losses = <<>>
    /\ nums = <<>>
    /\ val_loss = None
    /\ cb_handler = [epoch |-> 0]
    /\ cb_returns = None
    /\ recorder = Recorder_init
    /\ log = <<>>

NoLearner ==
    /\ layer_groups = <<>>
    /\ train_bn = TRUE
    /\ requires_grad = <<>>
    /\ opt = 0
    /\ delegations = <<>>
    /\ calls = <<>>

Init ==
    /\ caller = "fit"
    /\ epochs \in 0..MaxEpochs
    /\ data \in DataBunches
    /\ epochs * (Len(data.train_dl) + Len(data.valid_dl)) <= MaxBatches
    /\ metrics \in MetricLists
    /\ loss_func = <<"BCE", "Focal">>
    /\ n_batch = 0
    /\ average = TRUE
    /\ feed = <<>>
    /\ fed = 0
    /\ first_pass = <<>>
    /\ pc = "call"
    /\ InitLocals
    /\ training \in BOOLEAN
    /\ NoLearner
    /\ loss_given \in BOOLEAN

Next ==
    \/ FitBegin
    \/ EpochBegin
    \/ LoopExit
    \/ TrainBatchBegin
    \/ TrainExhausted
    \/ TrainLossBatch
    \/ TrainBatchEnd
    \/ ValidateBegin
    \/ NoValidation
    \/ ValBatchBegin
    \/ ValExhausted
    \/ ValLossBatch
    \/ ValBatchEnd
    \/ ValidateReturn
    \/ EpochEnd
    \/ TrainEnd

Spec == Init /\ [][Next]_vars

AnyLoaders ==
    {[i \in 1..Len(ss) |-> Batch(i, ss[i][1], TargetLabel, ss[i][2])] :
        ss \in SeqsUpTo(BatchSizes \X Losses, MaxValid)}

InitValidate ==
    /\ caller = "validate"
    /\ epochs = 0
    /\ data \in {[train_dl |-> <<>>, valid_dl |-> v, has_valid |-> TRUE] : v \in AnyLoaders}
    /\ metrics = <<>>
    /\ loss_func = <<"BCE", "Focal">>
    /\ n_batch \in 0..MaxValid
    /\ average \in BOOLEAN
    /\ feed = <<>>
    /\ fed = 0
    /\ first_pass = <<>>
    /\ pc = "call"
    /\ InitLocals
    /\ training \in BOOLEAN
    /\ NoLearner
    /\ loss_given \in BOOLEAN

NextValidate ==
    \/ ValidateBegin
    \/ ValBatchBegin
    \/ ValExhausted
    \/ ValLossBatch
    \/ ValBatchEnd
    \/ ValidateReturn

SpecValidate == InitValidate /\ [][NextValidate]_vars

InitRecorder ==
    /\ caller = "recorder"
    /\ epochs = 0
    /\ data = [train_dl |-> <<>>, valid_dl |-> <<>>, has_valid |-> FALSE]
    /\ metrics = <<>>
    /\ loss_func \in LossFuncs
    /\ n_batch = 0
    /\ average = TRUE
    /\ feed \in SeqsUpTo(FeedEvents, MaxFeed) \ {<<>>}
    /\ fed = 0
    /\ first_pass = <<>>
    /\ pc = "rec_begin"
    /\ InitLocals
    /\ training = TRUE
    /\ NoLearner
    /\ loss_given = TRUE

NextRecorder ==
    \/ RecBatchBegin
    \/ RecBatchEnd

SpecRecorder == InitRecorder /\ [][NextRecorder]_vars

InitLearner ==
    /\ caller = "learner"
    /\ epochs = 0
    /\ data = [train_dl |-> <<>>, valid_dl |-> <<>>, has_valid |-> FALSE]
    /\ metrics = <<>>
    /\ loss_func = <<"BCE", "Focal">>
    /\ loss_given = TRUE
    /\ n_batch = 0
    /\ average = TRUE
    /\ feed = <<>>
    /\ fed = 0
    /\ first_pass = <<>>
    /\ pc = "idle"
    /\ InitLocals
    /\ training = TRUE
    /\ layer_groups \in {LayerGroups(n) : n \in 1..MaxGroups}
    /\ train_bn \in BOOLEAN
    /\ requires_grad \in [LayerIds(layer_groups) -> BOOLEAN]
    /\ opt = 0
    /\ delegations = <<>>
    /\ calls = <<>>

NextLearner ==
    \/ Freeze
    \/ Unfreeze
    \/ FreezeLayerGroups
    \/ UnfreezeLayerGroups
    \/ LearnerFit

SpecLearner == InitLearner /\ [][NextLearner]_vars

----------------------------------------------------------------------------
(* Properties of the epoch driver, stated over the log of dispatched events *)

TrainEnds == {i \in DOMAIN log : log[i].ev = "on_train_end"}

RaisedInLoop(i) ==
    /\ log[i].err # "None"
    /\ log[i].ev \notin {"on_train_begin", "on_train_end"}

C2_Original ==
    pc = "done" => TrainEnds = {Len(log)}

(* C2: on_train_end is never invoked twice and no event follows it; a       *)
(* finished call of fit has invoked it exactly once when on_train_begin      *)
(* returned normally (all epochs completed, stop at an epoch end, or an      *)
(* exception inside the epoch loop) and not at all when on_train_begin       *)
(* raised.                                                                   *)
C2_TrainEndOnce ==
    /\ Cardinality(TrainEnds) <= 1
    /\ \A i \in TrainEnds : i = Len(log)
    /\ pc = "done" =>
         IF log[1].err # "None"
         THEN TrainEnds = {} /\ Len(log) = 1 /\ raised = "on_train_begin"
         ELSE TrainEnds = {Len(log)}

C2_Witness ==
    /\ pc = "done"
    /\ TrainEnds = {Len(log)}
    /\ exception = "on_epoch_end"
    /\ log[Len(log)].epoch = 1

TrainStops == {i \in DOMAIN log : log[i].ev = "on_batch_end" /\ log[i].train /\ log[i].stop}

EventsOf(name, e) == {j \in DOMAIN log : log[j].ev = name /\ log[j].epoch = e}

AfterStop(i) ==
    IF ~data.has_valid THEN "on_epoch_end"
    ELSE IF Len(data.valid_dl) > 0 THEN "on_batch_begin" ELSE "aggregate"

(* C3: after on_batch_end returns stop for a training batch of epoch e, no  *)
(* training-batch event of epoch e follows; the next event is the first      *)
(* step of the validation of epoch e when there is a validation source and   *)
(* on_epoch_end of epoch e otherwise; unless an exception is raised, epoch e *)
(* fires on_epoch_end, and the next epoch begins when on_epoch_end does not  *)
(* return stop and an epoch is left.                                         *)
C3_StopEndsTrainingOnly ==
    \A i \in TrainStops :
        LET e == log[i].epoch
        IN /\ \A j \in (i + 1)..Len(log) : ~(log[j].epoch = e /\ log[j].train)
           /\ i = Len(log) => pc \in {"after_train", "valid", "valid_return", "epoch_end"}
           /\ i < Len(log) =>
                /\ log[i + 1].ev = AfterStop(i)
                /\ log[i + 1].epoch = e
                /\ ~log[i + 1].train
           /\ (pc = "done" /\ exception = NoException) =>
                /\ \E j \in EventsOf("on_epoch_end", e) : j > i
                /\ data.has_valid => \E j \in EventsOf("aggregate", e) : j > i
                /\ (e + 1 < epochs /\ \A j \in EventsOf("on_epoch_end", e) : ~log[j].stop)
                     => EventsOf("on_epoch_begin", e + 1) # {}

C3_Witness ==
    /\ pc = "done"
    /\ exception = NoException
    /\ Len(data.train_dl) = 2
    /\ \E i \in TrainStops :
         /\ log[i].epoch = 0
         /\ Cardinality({j \in EventsOf("on_batch_end", 0) : log[j].train}) = 1
         /\ log[i + 1].ev = "on_batch_begin"
         /\ ~log[i + 1].train
         /\ EventsOf("on_epoch_end", 0) # {}
         /\ EventsOf("on_epoch_begin", 1) # {}

EpochStops == {i \in DOMAIN log : log[i].ev = "on_epoch_end" /\ log[i].stop}

(* C4: when on_epoch_end returns stop, the only event that follows it is    *)
(* on_train_end, invoked with no exception.                                  *)
C4_EpochStopEndsFit ==
    \A i \in EpochStops :
        \/ /\ i = Len(log)
           /\ pc = "finally"
           /\ exception = NoException
        \/ /\ i + 1 = Len(log)
           /\ pc = "done"
           /\ log[i + 1].ev = "on_train_end"
           /\ log[i + 1].arg = NoException

C4_Witness ==
    /\ pc = "done"
    /\ \E i \in EpochStops :
         /\ log[i].epoch + 1 < epochs
         /\ log[i + 1].ev = "on_train_end"

ValEvents(name, e) == {j \in EventsOf(name, e) : ~log[j].train}

(* C5 as stated: at every on_epoch_end of an epoch with a validation        *)
(* source, every batch of the source has been begun, stepped and ended.      *)
C5_Original ==
    \A i \in DOMAIN log :
        (log[i].ev = "on_epoch_end" /\ data.has_valid) =>
            LET e == log[i].epoch
            IN /\ Cardinality(ValEvents("on_batch_begin", e)) = Len(data.valid_dl)
               /\ Cardinality(ValEvents("loss_func", e)) = Len(data.valid_dl)
               /\ Cardinality(ValEvents("on_batch_end", e)) = Len(data.valid_dl)

(* C5: at every on_epoch_end of an epoch with a validation source, the      *)
(* first k batches of the source have each been begun, stepped and ended,    *)
(* where k is the number of batches of the source when no on_batch_end of    *)
(* the validation returned stop, and otherwise the position of the first     *)
(* batch whose on_batch_end returned stop.                                   *)
C5_ValidationRunsUntilStop ==
    \A i \in DOMAIN log :
        (log[i].ev = "on_epoch_end" /\ data.has_valid) =>
            LET e == log[i].epoch
                ends == ValEvents("on_batch_end", e)
                k == Cardinality(ends)
                stops == {j \in ends : log[j].stop}
            IN /\ Cardinality(ValEvents("on_batch_begin", e)) = k
               /\ Cardinality(ValEvents("loss_func", e)) = k
               /\ \A j \in ends : j < i
               /\ k >= 1
               /\ k <= Len(data.valid_dl)
               /\ stops = {} => k = Len(data.valid_dl)
               /\ \A j \in stops : \A j2 \in ends : j2 <= j

C5_Witness ==
    /\ data.has_valid
    /\ Len(data.valid_dl) = 2
    /\ \E i \in DOMAIN log :
         /\ log[i].ev = "on_epoch_end"
         /\ Cardinality(ValEvents("on_batch_end", log[i].epoch)) = 1
         /\ \E j \in ValEvents("on_batch_end", log[i].epoch) : log[j].stop

----------------------------------------------------------------------------
(* Properties of validate *)

RECURSIVE SumOver(_, _)
SumOver(f, n) == IF n = 0 THEN 0 ELSE f[n] + SumOver(f, n - 1)

Processed == Cardinality({j \in DOMAIN log : log[j].ev = "loss_func" /\ log[j].err = "None"})

(* C6: with averaging enabled, the value validate returns is                *)
(* sum(loss_i * size_i) / sum(size_i) over the batches it processed, size_i  *)
(* being the number of samples of batch i; sizes 4 and 6 with losses 2.0 and *)
(* 1.0 give 1.4, and for two batches whose sizes differ and whose losses     *)
(* differ the value is not the plain mean of the two losses.                 *)
C6_WeightedMean ==
    (pc = "done" /\ raised = "None" /\ average) =>
        LET k == Processed
            size == [i \in 1..k |-> data.valid_dl[i].size]
            weighted == [i \in 1..k |-> data.valid_dl[i].loss * data.valid_dl[i].size]
            plain == [i \in 1..k |-> data.valid_dl[i].loss]
        IN /\ k >= 1
           /\ Len(nums) = k
           /\ Len(val_losses) = k
           /\ val_loss[2] > 0
           /\ val_loss[1] * SumOver(size, k) = val_loss[2] * SumOver(weighted, k)
           /\ (k = 2 /\ size = <<4, 6>> /\ plain = <<20, 10>>) => val_loss[1] = 14 * val_loss[2]
           /\ (k = 2 /\ size[1] # size[2] /\ plain[1] # plain[2])
                => val_loss[1] * k # val_loss[2] * SumOver(plain, k)

C6_Witness ==
    /\ pc = "done"
    /\ raised = "None"
    /\ average
    /\ nums = <<4, 6>>
    /\ val_losses = <<20, 10>>
    /\ val_loss = <<140, 10>>

----------------------------------------------------------------------------
(* Properties of the Recorder *)

IsPrefix(a, b) == Len(a) <= Len(b) /\ SubSeq(b, 1, Len(a)) = a

NamesOf(h, k) == IF k \in DOMAIN h THEN DOMAIN h[k] ELSE {}

LossNames == {loss_func[j] : j \in 1..Len(loss_func)}

AppendOnlyStep ==
    LET old == recorder.loss_history
        new == recorder'.loss_history
    IN /\ \A k \in DOMAIN old :
            /\ k \in DOMAIN new
            /\ \A n \in DOMAIN old[k] : n \in DOMAIN new[k] /\ IsPrefix(old[k][n], new[k][n])
       /\ pc # "rec_end" => new = old
       /\ pc = "rec_end" =>
            /\ \A k \in DOMAIN new \ {recorder.key} : k \in DOMAIN old /\ new[k] = old[k]
            /\ NamesOf(new, recorder.key) = NamesOf(old, recorder.key) \cup LossNames
            /\ \A n \in LossNames :
                 \E j \in 1..Len(loss_func) :
                    /\ loss_func[j] = n
                    /\ Series(new, recorder.key, n) =
                         Series(old, recorder.key, n) \o [i \in 1..yb.size |-> <<j, yb.id, i>>]

Doubled ==
    fed = 2 * Len(feed) =>
        /\ DOMAIN recorder.loss_history = DOMAIN first_pass
        /\ \A k \in DOMAIN first_pass :
             /\ DOMAIN recorder.loss_history[k] = DOMAIN first_pass[k]
             /\ \A n \in DOMAIN first_pass[k] :
                  recorder.loss_history[k][n] = first_pass[k][n] \o first_pass[k][n]

(* C7: every step of a Recorder keeps each series of loss_history as a      *)
(* prefix of its new content; on_batch_end extends the series of the current *)
(* key, for every loss-component name, by the per-sample values of that      *)
(* batch in their order and changes no series of another key; after the same *)
(* batch sequence has been fed twice every series is its content after the   *)
(* first pass repeated twice.                                                *)
C7_AppendOnly == [][AppendOnlyStep]_vars /\ []Doubled

C7_Witness ==
    /\ fed = 2 * Len(feed)
    /\ Len(feed) = 2
    /\ Cardinality(DOMAIN recorder.loss_history) = 2
    /\ \E k \in DOMAIN recorder.loss_history :
         /\ DOMAIN recorder.loss_history[k] = {"BCE", "Focal"}
         /\ Len(recorder.loss_history[k]["BCE"]) = 4

(* C8 as stated: every series metric_history[(VAL, e)][name] holds exactly  *)
(* one value, the value of that metric computed for epoch e.                 *)
C8_Original ==
    \A k \in DOMAIN recorder.metric_history :
        /\ k[1] = "VAL"
        /\ \A n \in DOMAIN recorder.metric_history[k] :
             recorder.metric_history[k][n] = <<MetricValue(n, k[2])>>

(* C9 as stated: history[key] holds every series of loss_history[key] and   *)
(* every series of metric_history[key].                                      *)
C9_Original ==
    LET h == history(recorder)
    IN /\ \A k \in DOMAIN recorder.loss_history :
            /\ k \in DOMAIN h
            /\ \A n \in DOMAIN recorder.loss_history[k] :
                 n \in DOMAIN h[k] /\ h[k][n] = recorder.loss_history[k][n]
       /\ \A k \in DOMAIN recorder.metric_history :
            /\ k \in DOMAIN h
            /\ \A n \in DOMAIN recorder.metric_history[k] :
                 n \in DOMAIN h[k] /\ h[k][n] = recorder.metric_history[k][n]

ExpectedPhase(train, target) ==
    IF train THEN "TRAIN"
    ELSE IF "label" \in DOMAIN target /\ target.label # "None" THEN "VAL"
    ELSE "TEST"

(* C10: after on_batch_begin the phase of the Recorder is TRAIN when the    *)
(* training flag of the batch is true, otherwise VAL when the target of the  *)
(* batch carries a non-null label, otherwise TEST, and its key is that phase *)
(* paired with the epoch of the batch.                                       *)
C10_PhaseAndKey ==
    pc = "rec_end" =>
        LET e == feed[(fed % Len(feed)) + 1]
        IN /\ recorder.phase = ExpectedPhase(e.train, e.target)
           /\ recorder.key = <<ExpectedPhase(e.train, e.target), e.epoch>>

C10_Witness ==
    /\ pc = "rec_end"
    /\ yb.target = TargetNull
    /\ recorder.phase = "TEST"
    /\ recorder.key = <<"TEST", 1>>
    /\ fed = 1

----------------------------------------------------------------------------
(* Properties of the Learner, stated over the record of its method calls *)

CallsOf(op) == {i \in DOMAIN calls : calls[i].op = op}

MixedFlags(rg) == \E a, b \in DOMAIN rg : rg[a] /\ ~rg[b]

(* C11: freeze() on a learner with exactly one layer group fails with the   *)
(* assertion of its precondition, and every layer has the same              *)
(* requires_grad flag after the failed call as before it.                    *)
C11_FreezeNeedsTwoGroups ==
    \A i \in CallsOf("freeze") :
        Len(layer_groups) = 1 =>
            /\ calls[i].err = "AssertionError"
            /\ calls[i].after = calls[i].before

C11_Witness ==
    /\ Len(layer_groups) = 1
    /\ \E i \in CallsOf("freeze") :
        /\ calls[i].err = "AssertionError"
        /\ MixedFlags(calls[i].before)
        /\ requires_grad = calls[i].before

(* C12 as stated: from the same flags, freeze_layer_groups(S) and           *)
(* unfreeze_layer_groups(complement of S) both complete and leave every      *)
(* layer with the same requires_grad flag.                                   *)
C12_Original ==
    \A i \in CallsOf("freeze_layer_groups") : \A j \in CallsOf("unfreeze_layer_groups") :
        (calls[j].arg = GroupIdxs \ calls[i].arg /\ calls[j].before = calls[i].before) =>
            /\ calls[i].err = "None"
            /\ calls[j].err = "None"
            /\ calls[i].after = calls[j].after

AllTrainable == [id \in LayerIds(layer_groups) |-> TRUE]

(* C13 as stated: unfreeze_layer_groups(T), called alone or right after     *)
(* freeze_layer_groups(complement of T), completes and leaves flags that     *)
(* depend on T only, not on the flags before the call: the layers of the     *)
(* groups outside T frozen (batch-norm layers exempt under train_bn), every  *)
(* other layer trainable.                                                    *)
C13_Original ==
    \A j \in CallsOf("unfreeze_layer_groups") :
        /\ calls[j].err = "None"
        /\ calls[j].after = freeze_loop(AllTrainable, GroupIdxs \ calls[j].arg)

(* C14 as stated: every call of Learner.fit completes, creates a new        *)
(* optimizer, and delegates exactly once to the epoch driver with a list     *)
(* holding the learner-level callbacks, a Recorder that captured the new     *)
(* optimizer, and the call-supplied callbacks.                               *)
C14_Original ==
    /\ \A i \in CallsOf("fit") : calls[i].err = "None"
    /\ Len(delegations) = Cardinality(CallsOf("fit"))
    /\ \A k \in DOMAIN delegations :
        LET d == delegations[k]
        IN /\ d.opt = k
           /\ \E c \in DOMAIN d.callbacks : d.callbacks[c] = Callback("Recorder", d.opt)
           /\ \A c \in DOMAIN self_callbacks :
                \E c2 \in DOMAIN d.callbacks : d.callbacks[c2] = self_callbacks[c]

----------------------------------------------------------------------------
(* Properties of the dispatch of stop signals and of the batch step *)

LastEvent == log[Len(log)]

(* C15: the stop value the handler returns from on_batch_end and from       *)
(* on_epoch_end is TRUE exactly when at least one callback returned TRUE,    *)
(* and the driver acts on that value: it leaves the training loop, the       *)
(* validation loop or the epoch loop exactly when the value is TRUE.         *)
C15_StopIsAnyCallback ==
    (cb_returns # None /\ LastEvent.err = "None") =>
        /\ LastEvent.ev \in {"on_batch_end", "on_epoch_end"}
        /\ LastEvent.stop = (\E i \in DOMAIN cb_returns : cb_returns[i])
        /\ (LastEvent.ev = "on_batch_end" /\ LastEvent.train) =>
              pc = (IF LastEvent.stop THEN "after_train" ELSE "train")
        /\ (LastEvent.ev = "on_batch_end" /\ ~LastEvent.train /\ n_batch = 0) =>
              pc = (IF LastEvent.stop THEN "valid_return" ELSE "valid")
        /\ LastEvent.ev = "on_epoch_end" =>
              pc = (IF LastEvent.stop THEN "finally" ELSE "loop")

C15_Witness ==
    /\ cb_returns # None
    /\ ~cb_returns[1]
    /\ cb_returns[NCallbacks]
    /\ LastEvent.ev = "on_batch_end"
    /\ ~LastEvent.train
    /\ LastEvent.stop
    /\ vi + 1 < Len(data.valid_dl)
    /\ pc = "valid_return"

BackwardEvents ==
    {"on_backward_begin", "backward", "on_backward_end", "opt_step", "on_step_end", "zero_grad"}

StepOrder(with_opt) ==
    IF ~loss_given THEN <<"forward", "on_loss_begin">>
    ELSE IF ~with_opt THEN <<"forward", "on_loss_begin", "loss_func">>
    ELSE <<"forward", "on_loss_begin", "loss_func", "on_backward_begin", "backward",
           "on_backward_end", "opt_step", "on_step_end", "zero_grad">>

StepFollows(i, order) ==
    \A k \in 1..(Len(order) + 1) :
        (i + k <= Len(log) /\ \A m \in i..(i + k - 1) : log[m].err = "None") =>
            /\ log[i + k].ev = (IF k <= Len(order) THEN order[k] ELSE "on_batch_end")
            /\ log[i + k].train = log[i].train

(* C16: the events of one batch step follow on_batch_begin in the order     *)
(* forward, on_loss_begin, loss computation and, for a training step with a  *)
(* loss function, on_backward_begin, backward, on_backward_end, optimizer    *)
(* step, on_step_end, zero_grad; on_batch_end is dispatched only after all   *)
(* of them have completed; a step without optimizer or without loss          *)
(* function has none of the backward, optimizer or step events.              *)
C16_BatchStepOrder ==
    /\ \A i \in DOMAIN log :
         log[i].ev = "on_batch_begin" => StepFollows(i, StepOrder(log[i].train))
    /\ \A j \in DOMAIN log :
         log[j].ev = "on_batch_end" =>
            LET n == Len(StepOrder(log[j].train))
            IN /\ j - n - 1 >= 1
               /\ log[j - n - 1].ev = "on_batch_begin"
               /\ \A m \in (j - n - 1)..(j - 1) : log[m].err = "None"
    /\ \A j \in DOMAIN log :
         (~log[j].train \/ ~loss_given) => log[j].ev \notin BackwardEvents

C16_Witness ==
    /\ loss_given
    /\ \E j \in DOMAIN log :
        /\ log[j].ev = "on_batch_end"
        /\ log[j].train
        /\ log[j - 1].ev = "zero_grad"
        /\ log[j - 6].ev = "on_backward_begin"
    /\ \E j \in DOMAIN log :
        /\ log[j].ev = "on_batch_end"
        /\ ~log[j].train
        /\ log[j - 1].ev = "loss_func"

EventNames == [i \in DOMAIN log |-> log[i].ev]

----------------------------------------------------------------------------
(* Properties of the batch cap of validate, of the model's mode and of the  *)
(* flat series of the base recorder                                          *)

Returned == caller = "validate" /\ pc = "done" /\ raised = "None"

ValStopped == \E i \in DOMAIN log : log[i].ev = "on_batch_end" /\ ~log[i].train /\ log[i].stop

ValEnds == {i \in DOMAIN log : log[i].ev = "on_batch_end" /\ ~log[i].train}

CoversFirst(k) ==
    /\ Len(nums) = k
    /\ Len(val_losses) = k
    /\ \A i \in 1..k :
        /\ nums[i] = data.valid_dl[i].size
        /\ val_losses[i] = loss_batch_result(data.valid_dl[i])
    /\ val_loss = IF average THEN <<SumProd(val_losses, nums), Sum(nums)>> ELSE val_losses

(* C18 as stated: a validate call with batch cap n >= 1 that returns has    *)
(* processed exactly the first min(n, number of batches) batches.            *)
C18_Original ==
    (Returned /\ n_batch >= 1) => CoversFirst(Min(n_batch, Len(data.valid_dl)))

(* C18: a validate call that returns has processed the first k batches of   *)
(* the source, in order, and its result (weighted mean or raw loss list) is  *)
(* computed from exactly those; with a cap n >= 1, k <= n; when no           *)
(* on_batch_end returned stop, k is min(n, number of batches) with a cap and *)
(* the number of batches without one; when an on_batch_end returned stop, it *)
(* was that of batch k and no batch after it was processed.                  *)
C18_BatchCap ==
    Returned =>
        /\ CoversFirst(Cardinality(ValEnds))
        /\ n_batch >= 1 => Len(nums) <= n_batch
        /\ ~ValStopped =>
             Len(nums) = (IF n_batch >= 1 THEN Min(n_batch, Len(data.valid_dl))
                          ELSE Len(data.valid_dl))
        /\ \A i \in ValEnds : log[i].stop => \A j \in ValEnds : j <= i

C18_Witness ==
    /\ Returned
    /\ n_batch = 1
    /\ Len(data.valid_dl) = 2
    /\ ~ValStopped
    /\ CoversFirst(1)

(* C19: a training batch step runs only while the model is in training      *)
(* mode and a validation batch step only while it is in evaluation mode;     *)
(* the training loop of every epoch, also of one that follows a validated    *)
(* epoch, is entered in training mode.                                       *)
C19_ModeMatchesStep ==
    /\ pc \in {"train", "train_loss", "train_end"} => training
    /\ pc \in {"valid", "valid_loss", "valid_end"} => ~training

C19_Witness ==
    /\ pc = "train_loss"
    /\ epoch = 1
    /\ training
    /\ \E i \in DOMAIN log : log[i].ev = "aggregate" /\ log[i].epoch = 0 /\ log[i].err = "None"

TrainBegun == {i \in DOMAIN log : log[i].ev = "on_batch_begin" /\ log[i].train}

BackwardBegun == {i \in DOMAIN log : log[i].ev = "on_backward_begin"}

(* C20: once on_train_begin has been dispatched, lrs and moms have the same *)
(* length, the number of training batches begun since (validation batches    *)
(* add nothing); losses has one entry per training batch that has reached    *)
(* on_backward_begin, so it is never longer than lrs and as long as lrs once *)
(* every begun training batch has reached on_backward_begin.                 *)
C20_FlatSeries ==
    (caller = "fit" /\ pc # "call") =>
        /\ Len(recorder.lrs) = Cardinality(TrainBegun)
        /\ Len(recorder.moms) = Len(recorder.lrs)
        /\ Len(recorder.losses) = Cardinality(BackwardBegun)
        /\ Len(recorder.losses) <= Len(recorder.lrs)

C20_Witness ==
    /\ caller = "fit"
    /\ Len(recorder.lrs) = 2
    /\ Len(recorder.moms) = 2
    /\ Len(recorder.losses) = 2
    /\ \E i \in DOMAIN log : log[i].ev = "on_batch_begin" /\ ~log[i].train /\ i > 2
    /\ pc = "valid_end"

====
